---- MODULE Spec2Model ----
(***************************************************************************)
(* Model of GeoJsonLayer's data decomposition state machine                *)
(* (modules/layers/src/geojson-layer/geojson-layer.ts).                    *)
(*                                                                         *)
(* The layer state {binary, features, featuresDiff, layerProps} is driven  *)
(* by updateState.  Arrays are modelled on an explicit heap (`arrays`) so  *)
(* that copying a bucket (Array.prototype.slice) and splicing a bucket in  *)
(* place (replaceInRange) are distinguishable.                             *)
(***************************************************************************)
EXTENDS Integers, Sequences, FiniteSets, TLC

VARIABLES
  data,          \* props.data of the last updateState call
  oldData,       \* oldProps.data of the last updateState call
  dataChanged,   \* changeFlags.dataChanged of the last updateState call
  binary,        \* state.binary
  features,      \* state.features: bucket key -> array id
  featuresDiff,  \* state.featuresDiff: bucket key -> list of {startRow, endRow}
  layerProps,    \* state.layerProps
  arrays,        \* the heap of bucket arrays: array id -> sequence of records
  oldFeatures,   \* state.features as read at the start of the last pass
  path,          \* which branch of updateState the last call took
  passes,        \* number of updateState calls so far
  pass,          \* the updateState call in progress: position and locals
  props,         \* the props read by renderLayers, and the layer id
  info,          \* the picking info of the getPickingInfo call
  subLayers,     \* the sub-layers: the list renderLayers returned
  highlighted    \* the sub-layers _updateAutoHighlight forwarded the info to

\* The variables of the update lifecycle.
updateVars == <<data, oldData, dataChanged, binary, features, featuresDiff,
                layerProps, arrays, oldFeatures, path, passes>>

\* The variables of rendering and picking.
queryVars == <<props, info, subLayers, highlighted>>

vars == <<data, oldData, dataChanged, binary, features, featuresDiff,
          layerProps, arrays, oldFeatures, path, passes,
          pass, props, info, subLayers, highlighted>>

----------------------------------------------------------------------------
(* Bounds of the model *)

MaxFeatures == 2
MaxRanges == 2
MaxPasses == 3

----------------------------------------------------------------------------
(* Data model *)

\* The keys of SeparatedGeometries, in enumeration order.
BucketKeys == <<"points", "lines", "polygons">>

BucketKeySet == {BucketKeys[i] : i \in 1..Len(BucketKeys)}

\* A feature is identified by its geometry: its type and its coordinates
\* (for a MultiPoint, the list of its points).
Point == [type |-> "Point", coordinates |-> <<"p0">>]

MultiPoint == [type |-> "MultiPoint", coordinates |-> <<"p0", "p1">>]

LineString == [type |-> "LineString", coordinates |-> <<"l0">>]

Polygon == [type |-> "Polygon", coordinates |-> <<"r0">>]

Geometries == {Point, MultiPoint, LineString, Polygon}

\* Geometry Normalizer: the bucket a geometry type contributes to.
geometryKind(type) ==
  CASE type \in {"Point", "MultiPoint"} -> "points"
    [] type \in {"LineString", "MultiLineString"} -> "lines"
    [] type \in {"Polygon", "MultiPolygon"} -> "polygons"
    [] OTHER -> "none"

\* Geometry Normalizer: the records one feature contributes to bucket `key`.
\* A Point / LineString / Polygon gives one record with subIndex 0, a
\* MultiPoint one record per coordinate with subIndex 0..n-1.
\* Each record carries the source index and a back-reference to its feature.
normalize(feature, sourceIndex, key) ==
  IF geometryKind(feature.type) # key THEN <<>>
  ELSE IF feature.type = "MultiPoint"
       THEN [i \in 1..Len(feature.coordinates) |->
               [sourceIndex |-> sourceIndex, subIndex |-> i - 1, object |-> feature]]
       ELSE <<[sourceIndex |-> sourceIndex, subIndex |-> 0, object |-> feature]>>

\* Feature-Collection Flattener: the ordered sequence of features of props.data.
getGeojsonFeatures(d) == IF d.present THEN d.features ELSE <<>>

RECURSIVE separateRows(_, _, _, _)
separateRows(feats, key, startRow, endRow) ==
  IF startRow >= endRow \/ startRow >= Len(feats) THEN <<>>
  ELSE normalize(feats[startRow + 1], startRow, key)
         \o separateRows(feats, key, startRow + 1, endRow)

\* The range a call without dataRange processes: every feature.
allRows(feats) == [startRow |-> 0, endRow |-> Len(feats)]

\* Bucket Separator: the three buckets of the features whose source index is
\* in dataRange.
separateGeojsonFeatures(feats, dataRange) ==
  [k \in BucketKeySet |-> separateRows(feats, k, dataRange.startRow, dataRange.endRow)]

\* Position (0-based) of the first record of `rows` whose source index is
\* at least `row`, or the length of `rows` if there is none.
firstAtLeast(rows, row) ==
  IF \E i \in 1..Len(rows) : rows[i].sourceIndex >= row
  THEN (CHOOSE i \in 1..Len(rows) :
          /\ rows[i].sourceIndex >= row
          /\ \A j \in 1..(i - 1) : rows[j].sourceIndex < row) - 1
  ELSE Len(rows)

\* Range-Diff Splicer, one range on one bucket: the spliced rows and the
\* reported output interval.
replaceInRange(rows, dataRange, replace) ==
  LET replaceStart == firstAtLeast(rows, dataRange.startRow)
      replaceEnd == firstAtLeast(rows, dataRange.endRow)
  IN [data |-> SubSeq(rows, 1, replaceStart) \o replace
                 \o SubSeq(rows, replaceEnd + 1, Len(rows)),
      range |-> [startRow |-> replaceStart,
                 endRow |-> replaceStart + Len(replace)]]

createLayerPropsFromFeatures(newFeatures, diff) ==
  [source |-> "features", features |-> newFeatures, featuresDiff |-> diff]

createLayerPropsFromBinary(d) == [source |-> "binary", data |-> d]

----------------------------------------------------------------------------
(* Inputs *)

RECURSIVE SeqsUpTo(_, _)
SeqsUpTo(S, n) ==
  IF n = 0 THEN {<<>>}
  ELSE LET shorter == SeqsUpTo(S, n - 1)
       IN shorter \cup {Append(s, x) : s \in shorter, x \in S}

NoData == [present |-> FALSE, points |-> FALSE, lines |-> FALSE,
           polygons |-> FALSE, features |-> <<>>]

\* A feature array / feature collection.
JsonData(feats) == [present |-> TRUE, points |-> FALSE, lines |-> FALSE,
                    polygons |-> FALSE, features |-> feats]

\* An object with some of the keys points, lines, polygons; it may also
\* carry features.
KeyedData == {[present |-> TRUE, points |-> p, lines |-> l, polygons |-> g,
               features |-> f] :
                p \in BOOLEAN, l \in BOOLEAN, g \in BOOLEAN, f \in {<<Point>>}}

DataValues ==
  {NoData} \cup {JsonData(f) : f \in SeqsUpTo(Geometries, MaxFeatures)}
           \cup {d \in KeyedData :
                   Cardinality({k \in {"p", "l", "g"} :
                      \/ k = "p" /\ d.points
                      \/ k = "l" /\ d.lines
                      \/ k = "g" /\ d.polygons}) >= 2}

Ranges == {[startRow |-> s, endRow |-> e] :
             s \in 0..MaxFeatures, e \in 0..MaxFeatures}

\* Lists of change ranges: half-open, non-empty, ascending, non-overlapping.
RangeLists ==
  {rs \in SeqsUpTo(Ranges, MaxRanges) :
     /\ Len(rs) >= 1
     /\ \A i \in 1..Len(rs) : rs[i].startRow < rs[i].endRow
     /\ \A i \in 1..(Len(rs) - 1) : rs[i].endRow <= rs[i + 1].startRow}

NotChanged == [kind |-> "false", ranges |-> <<>>]

FullChange == [kind |-> "full", ranges |-> <<>>]

ChangeFlags ==
  {NotChanged, FullChange} \cup {[kind |-> "ranges", ranges |-> rs] : rs \in RangeLists}

----------------------------------------------------------------------------
(* State machine *)

NoBuckets == [k \in {} |-> 0]

initializeState ==
  /\ layerProps = [source |-> "none"]
  /\ features = NoBuckets
  /\ featuresDiff = NoBuckets
  /\ binary = "undefined"

\* No updateState call is in progress.
IdlePass == [pc |-> "idle"]

\* Nothing has been rendered or picked.
NoQuery ==
  /\ props = [id |-> <<>>]
  /\ info = [pc |-> "none"]
  /\ subLayers = <<>>
  /\ highlighted = {}

Init ==
  /\ initializeState
  /\ data = NoData
  /\ oldData = NoData
  /\ dataChanged = NotChanged
  /\ arrays = <<>>
  /\ oldFeatures = NoBuckets
  /\ path = "none"
  /\ passes = 0
  /\ pass = IdlePass
  /\ NoQuery

\* Variant of binaryOf: the key lines is not tested.
binaryOfTwoKeys(d) ==
  IF ~d.present THEN "null"
  ELSE IF d.points /\ d.polygons THEN "true" ELSE "false"

\* data && 'points' in data && 'polygons' in data && 'lines' in data
binaryOf(d) ==
  IF ~d.present THEN "null"
  ELSE IF d.points /\ d.polygons /\ d.lines THEN "true" ELSE "false"

Truthy(b) == b = "true"

\* The keys of an object, in enumeration order.
keysOf(obj) == SelectSeq(BucketKeys, LAMBDA k : k \in DOMAIN obj)

indexIn(seq, x) == CHOOSE i \in 1..Len(seq) : seq[i] = x

\* Variant of copyBuckets: the buckets are not copied; newFeatures holds the
\* arrays of oldFeatures themselves.
copyBucketsAlias(heap, oldF) ==
  [heap |-> heap,
   features |-> oldF,
   featuresDiff |-> [k \in DOMAIN oldF |-> <<>>]]

\* Variant of copyBuckets: the report of a bucket starts from the report
\* left in state.featuresDiff instead of an empty list.
copyBucketsKeepDiff(heap, oldF) ==
  LET keys == keysOf(oldF)
  IN [heap |-> heap \o [i \in 1..Len(keys) |-> heap[oldF[keys[i]]]],
      features |-> [k \in DOMAIN oldF |-> Len(heap) + indexIn(keys, k)],
      featuresDiff |-> [k \in DOMAIN oldF |->
                          IF k \in DOMAIN featuresDiff THEN featuresDiff[k] ELSE <<>>]]

\* for (const key in oldFeatures) { newFeatures[key] = oldFeatures[key].slice();
\*                                  featuresDiff[key] = []; }
copyBuckets(heap, oldF) ==
  LET keys == keysOf(oldF)
  IN [heap |-> heap \o [i \in 1..Len(keys) |-> heap[oldF[keys[i]]]],
      features |-> [k \in DOMAIN oldF |-> Len(heap) + indexIn(keys, k)],
      featuresDiff |-> [k \in DOMAIN oldF |-> <<>>]]

\* Variant of applyRange: the replacement rows are pushed at the end of the
\* bucket instead of being spliced at the position of the range.
applyRangeAppend(st, feats, dataRange, oldF) ==
  LET partialFeatures == separateGeojsonFeatures(feats, dataRange)
      spliced == [k \in DOMAIN oldF |->
                    replaceInRange(st.heap[st.features[k]], dataRange, partialFeatures[k])]
  IN [heap |-> [id \in DOMAIN st.heap |->
                  IF \E k \in DOMAIN oldF : st.features[k] = id
                  THEN st.heap[id]
                         \o partialFeatures[CHOOSE k \in DOMAIN oldF : st.features[k] = id]
                  ELSE st.heap[id]],
      features |-> st.features,
      featuresDiff |-> [k \in DOMAIN oldF |->
                          Append(st.featuresDiff[k], spliced[k].range)]]

\* Variant of applyRange: the separator is called without the dataRange, so
\* the replacement rows are those of the whole collection.
applyRangeAllRows(st, feats, dataRange, oldF) ==
  LET partialFeatures == separateGeojsonFeatures(feats, allRows(feats))
      spliced == [k \in DOMAIN oldF |->
                    replaceInRange(st.heap[st.features[k]], dataRange, partialFeatures[k])]
  IN [heap |-> [id \in DOMAIN st.heap |->
                  IF \E k \in DOMAIN oldF : st.features[k] = id
                  THEN spliced[CHOOSE k \in DOMAIN oldF : st.features[k] = id].data
                  ELSE st.heap[id]],
      features |-> st.features,
      featuresDiff |-> [k \in DOMAIN oldF |->
                          Append(st.featuresDiff[k], spliced[k].range)]]

\* Variant of applyRange: the range is located in the bucket as it was
\* before the pass, not in the bucket as updated by the earlier ranges.
applyRangeOldPositions(st, feats, dataRange, oldF) ==
  LET partialFeatures == separateGeojsonFeatures(feats, dataRange)
      spliced == [k \in DOMAIN oldF |->
                    replaceInRange(st.heap[st.features[k]], dataRange, partialFeatures[k])]
      located == [k \in DOMAIN oldF |->
                    replaceInRange(st.heap[oldF[k]], dataRange, partialFeatures[k])]
  IN [heap |-> [id \in DOMAIN st.heap |->
                  IF \E k \in DOMAIN oldF : st.features[k] = id
                  THEN spliced[CHOOSE k \in DOMAIN oldF : st.features[k] = id].data
                  ELSE st.heap[id]],
      features |-> st.features,
      featuresDiff |-> [k \in DOMAIN oldF |->
                          Append(st.featuresDiff[k], located[k].range)]]

\* Variant of applyRange: a bucket the range gives no replacement rows is
\* skipped: it is neither spliced nor given a report entry.
applyRangeSkipEmpty(st, feats, dataRange, oldF) ==
  LET partialFeatures == separateGeojsonFeatures(feats, dataRange)
      spliced == [k \in DOMAIN oldF |->
                    replaceInRange(st.heap[st.features[k]], dataRange, partialFeatures[k])]
      touched == {k \in DOMAIN oldF : partialFeatures[k] # <<>>}
  IN [heap |-> [id \in DOMAIN st.heap |->
                  IF \E k \in touched : st.features[k] = id
                  THEN spliced[CHOOSE k \in touched : st.features[k] = id].data
                  ELSE st.heap[id]],
      features |-> st.features,
      featuresDiff |-> [k \in DOMAIN oldF |->
                          IF k \in touched
                          THEN Append(st.featuresDiff[k], spliced[k].range)
                          ELSE st.featuresDiff[k]]]

\* One iteration of `for (const dataRange of changeFlags.dataChanged)`:
\* every bucket of newFeatures is spliced in place and its report entry pushed.
applyRange(st, feats, dataRange, oldF) ==
  LET partialFeatures == separateGeojsonFeatures(feats, dataRange)
      spliced == [k \in DOMAIN oldF |->
                    replaceInRange(st.heap[st.features[k]], dataRange, partialFeatures[k])]
  IN [heap |-> [id \in DOMAIN st.heap |->
                  IF \E k \in DOMAIN oldF : st.features[k] = id
                  THEN spliced[CHOOSE k \in DOMAIN oldF : st.features[k] = id].data
                  ELSE st.heap[id]],
      features |-> st.features,
      featuresDiff |-> [k \in DOMAIN oldF |->
                          Append(st.featuresDiff[k], spliced[k].range)]]

RECURSIVE applyRanges(_, _, _, _)
applyRanges(st, feats, ranges, oldF) ==
  IF ranges = <<>> THEN st
  ELSE applyRanges(applyRange(st, feats, Head(ranges), oldF), feats, Tail(ranges), oldF)

\* Variant of rebuildBuckets: the separated rows are added to the rows the
\* buckets of state.features hold, instead of starting from empty buckets.
rebuildBucketsOntoOld(heap, feats) ==
  LET sep == separateGeojsonFeatures(feats, allRows(feats))
      held(k) == IF k \in DOMAIN features THEN heap[features[k]] ELSE <<>>
  IN [heap |-> heap \o [i \in 1..Len(BucketKeys) |->
                          held(BucketKeys[i]) \o sep[BucketKeys[i]]],
      features |-> [k \in BucketKeySet |-> Len(heap) + indexIn(BucketKeys, k)],
      featuresDiff |-> NoBuckets]

\* newFeatures = separateGeojsonFeatures(features, wrapFeature): three new arrays.
rebuildBuckets(heap, feats) ==
  LET sep == separateGeojsonFeatures(feats, allRows(feats))
  IN [heap |-> heap \o [i \in 1..Len(BucketKeys) |-> sep[BucketKeys[i]]],
      features |-> [k \in BucketKeySet |-> Len(heap) + indexIn(BucketKeys, k)],
      featuresDiff |-> NoBuckets]

\* The branch of _updateStateJSON on Array.isArray(changeFlags.dataChanged).
updateBuckets(heap, oldF, feats, cf) ==
  IF cf.kind = "ranges"
  THEN applyRanges(copyBuckets(heap, oldF), feats, cf.ranges, oldF)
  ELSE rebuildBuckets(heap, feats)

_updateStateJSON(d, cf) ==
  \E st \in {updateBuckets(arrays, features, getGeojsonFeatures(d), cf)} :
     /\ oldFeatures' = features
     /\ arrays' = st.heap
     /\ features' = st.features
     /\ featuresDiff' = st.featuresDiff
     /\ layerProps' = createLayerPropsFromFeatures(st.features, st.featuresDiff)
     /\ path' = "json"

\* Variant of _updateStateBinary: the buckets and reports of the object path
\* are reset.
_updateStateBinaryReset(d, cf) ==
  /\ layerProps' = createLayerPropsFromBinary(d)
  /\ path' = "binary"
  /\ features' = NoBuckets
  /\ featuresDiff' = NoBuckets
  /\ UNCHANGED <<arrays, oldFeatures>>

_updateStateBinary(d, cf) ==
  /\ layerProps' = createLayerPropsFromBinary(d)
  /\ path' = "binary"
  /\ UNCHANGED <<features, featuresDiff, arrays, oldFeatures>>

\* Variant of updateState: setState({binary}) runs before dataChanged is
\* tested.
updateStateBinaryFirst(d, cf) ==
  /\ passes' = passes + 1
  /\ data' = d
  /\ oldData' = data
  /\ dataChanged' = cf
  /\ binary' = binaryOf(d)
  /\ IF cf.kind = "false"
     THEN /\ path' = "none"
          /\ UNCHANGED <<features, featuresDiff, layerProps, arrays, oldFeatures>>
     ELSE IF Truthy(binaryOf(d))
          THEN _updateStateBinary(d, cf)
          ELSE _updateStateJSON(d, cf)

updateState(d, cf) ==
  /\ passes' = passes + 1
  /\ data' = d
  /\ oldData' = data
  /\ dataChanged' = cf
  /\ IF cf.kind = "false"
     THEN /\ path' = "none"
          /\ UNCHANGED <<binary, features, featuresDiff, layerProps, arrays, oldFeatures>>
     ELSE /\ binary' = binaryOf(d)
          /\ IF Truthy(binaryOf(d))
             THEN _updateStateBinary(d, cf)
             ELSE _updateStateJSON(d, cf)

Next ==
  /\ passes < MaxPasses
  /\ \E d \in DataValues, cf \in ChangeFlags : updateState(d, cf)
  /\ UNCHANGED <<pass, queryVars>>

Spec == Init /\ [][Next]_vars

----------------------------------------------------------------------------
(* The update pass, statement by statement *)

\* updateState up to the call of _updateStateBinary / _updateStateJSON:
\* the early return, and setState({binary}).
stepUpdateState(d, cf) ==
  /\ pass.pc = "idle"
  /\ passes < MaxPasses
  /\ passes' = passes + 1
  /\ data' = d
  /\ oldData' = data
  /\ dataChanged' = cf
  /\ IF cf.kind = "false"
     THEN /\ path' = "none"
          /\ pass' = IdlePass
          /\ UNCHANGED binary
     ELSE /\ binary' = binaryOf(d)
          /\ path' = IF Truthy(binaryOf(d)) THEN "binary" ELSE "json"
          /\ pass' = [pc |-> IF Truthy(binaryOf(d)) THEN "binary" ELSE "json",
                      d |-> d, cf |-> cf]
  /\ UNCHANGED <<features, featuresDiff, layerProps, arrays, oldFeatures, queryVars>>

\* _updateStateBinary: setState({layerProps}).
stepBinary ==
  /\ pass.pc = "binary"
  /\ layerProps' = createLayerPropsFromBinary(pass.d)
  /\ pass' = IdlePass
  /\ UNCHANGED <<data, oldData, dataChanged, binary, features, featuresDiff,
                 arrays, oldFeatures, path, passes, queryVars>>

\* _updateStateJSON up to the loop over the change ranges: the copies of the
\* old buckets, or the full rebuild.
stepSeparate ==
  /\ pass.pc = "json"
  /\ oldFeatures' = features
  /\ IF pass.cf.kind = "ranges"
     THEN \E st \in {copyBuckets(arrays, features)} :
            /\ arrays' = st.heap
            /\ pass' = [pc |-> IF pass.cf.ranges = <<>> THEN "commit" ELSE "ranges",
                        d |-> pass.d, cf |-> pass.cf,
                        newFeatures |-> st.features,
                        featuresDiff |-> st.featuresDiff,
                        todo |-> pass.cf.ranges]
     ELSE \E st \in {rebuildBuckets(arrays, getGeojsonFeatures(pass.d))} :
            /\ arrays' = st.heap
            /\ pass' = [pc |-> "commit", d |-> pass.d, cf |-> pass.cf,
                        newFeatures |-> st.features,
                        featuresDiff |-> st.featuresDiff,
                        todo |-> <<>>]
  /\ UNCHANGED <<data, oldData, dataChanged, binary, features, featuresDiff,
                 layerProps, path, passes, queryVars>>

\* Variant of stepRange: the buckets and reports are also stored in the
\* state after every range.
stepRangeStoring ==
  /\ pass.pc = "ranges"
  /\ \E st \in {applyRange([heap |-> arrays, features |-> pass.newFeatures,
                            featuresDiff |-> pass.featuresDiff],
                           getGeojsonFeatures(pass.d), Head(pass.todo), oldFeatures)} :
       /\ arrays' = st.heap
       /\ features' = st.features
       /\ featuresDiff' = st.featuresDiff
       /\ pass' = [pass EXCEPT !.pc = IF Tail(pass.todo) = <<>> THEN "commit" ELSE "ranges",
                               !.featuresDiff = st.featuresDiff,
                               !.todo = Tail(pass.todo)]
  /\ UNCHANGED <<data, oldData, dataChanged, binary,
                 layerProps, oldFeatures, path, passes, queryVars>>

\* One iteration of the loop over the change ranges in _updateStateJSON.
stepRange ==
  /\ pass.pc = "ranges"
  /\ \E st \in {applyRange([heap |-> arrays, features |-> pass.newFeatures,
                            featuresDiff |-> pass.featuresDiff],
                           getGeojsonFeatures(pass.d), Head(pass.todo), oldFeatures)} :
       /\ arrays' = st.heap
       /\ pass' = [pass EXCEPT !.pc = IF Tail(pass.todo) = <<>> THEN "commit" ELSE "ranges",
                               !.featuresDiff = st.featuresDiff,
                               !.todo = Tail(pass.todo)]
  /\ UNCHANGED <<data, oldData, dataChanged, binary, features, featuresDiff,
                 layerProps, oldFeatures, path, passes, queryVars>>

\* The end of _updateStateJSON: createLayerPropsFromFeatures and
\* setState({features, featuresDiff, layerProps}).
stepSetState ==
  /\ pass.pc = "commit"
  /\ features' = pass.newFeatures
  /\ featuresDiff' = pass.featuresDiff
  /\ layerProps' = createLayerPropsFromFeatures(pass.newFeatures, pass.featuresDiff)
  /\ pass' = IdlePass
  /\ UNCHANGED <<data, oldData, dataChanged, binary, arrays, oldFeatures, path, passes, queryVars>>

NextSteps ==
  \/ \E d \in DataValues, cf \in ChangeFlags : stepUpdateState(d, cf)
  \/ stepBinary
  \/ stepSeparate
  \/ stepRange
  \/ stepSetState

SpecSteps == Init /\ [][NextSteps]_vars

----------------------------------------------------------------------------
(* Rendering and picking *)

\* The longest points.globalFeatureIds array.
MaxIds == 2

\* The largest number of '+'-separated types in props.pointType.
MaxTypes == 2

\* A JavaScript value that is a number or undefined: {n} or {}.
Num(n) == {n}

Undefined == {}

\* Number.isFinite, on a value that is a number or undefined.
IsFinite(v) == v # Undefined

ValueOf(v) == CHOOSE n \in v : TRUE

\* An id is a string; it is modelled as its sequence of tokens, the
\* separator "-" being a token of its own.
startsWith(s, prefix) ==
  /\ Len(prefix) <= Len(s)
  /\ SubSeq(s, 1, Len(prefix)) = prefix

\* The id getSubLayerProps gives the sub-layer `name`: `${this.id}-${name}`.
subLayerId(id, name) == id \o <<"-">> \o name

LayerId == <<"geojson", "-", "layer">>

FEATURE_TYPES == <<"points", "linestrings", "polygons">>

PolygonFillId == <<"polygons", "-", "fill">>

PolygonStrokeId == <<"polygons", "-", "stroke">>

LineStringsId == <<"linestrings">>

\* `points-${type}`
PointsId(type) == <<"points", "-", type>>

\* The keys of POINT_LAYER.
POINT_LAYER == {"circle", "icon", "text"}

\* The types props.pointType is made of; "label" is not a key of POINT_LAYER.
PointTypeNames == {"circle", "text", "label"}

\* pointType.split('+'), for the values of props.pointType.
PointTypes == SeqsUpTo(PointTypeNames, MaxTypes) \ {<<>>}

\* new Set(list): the distinct elements, in order of first occurrence.
RECURSIVE distinct(_)
distinct(list) ==
  IF list = <<>> THEN <<>>
  ELSE LET front == distinct(SubSeq(list, 1, Len(list) - 1))
           last == list[Len(list)]
       IN IF \E i \in 1..Len(front) : front[i] = last
          THEN front
          ELSE Append(front, last)

\* A columnar collection; globalFeatureIds is points.globalFeatureIds.value.
ColumnarData(ids) ==
  [present |-> TRUE, points |-> TRUE, lines |-> TRUE, polygons |-> TRUE,
   features |-> <<>>, globalFeatureIds |-> ids]

\* The arrays points.globalFeatureIds.value: one feature id per point, in
\* ascending order.
GlobalFeatureIds ==
  {ids \in SeqsUpTo(0..(MaxIds - 1), MaxIds) :
     \A i \in 1..(Len(ids) - 1) : ids[i] <= ids[i + 1]}

QueryCollections == SeqsUpTo({Point, Polygon}, MaxFeatures)

QueryData ==
  {NoData} \cup {JsonData(f) : f \in QueryCollections}
           \cup {ColumnarData(ids) : ids \in GlobalFeatureIds}

Attributes == {"getPosition", "instancePickingColors"}

BinaryProps(length) == [data |-> [length |-> length, attributes |-> Attributes]]

\* state.layerProps of the columnar path: the props of the sub-layers of the
\* three buckets and of the outline bucket.
subLayerPropsFromBinary(d) ==
  [points |-> BinaryProps(Len(d.globalFeatureIds)),
   lines |-> BinaryProps(0),
   polygons |-> BinaryProps(0),
   polygonsOutline |-> BinaryProps(0)]

\* state.layerProps of the object path.
subLayerPropsFromFeatures(feats) ==
  LET sep == separateGeojsonFeatures(feats, allRows(feats))
  IN [points |-> [data |-> sep["points"]],
      lines |-> [data |-> sep["lines"]],
      polygons |-> [data |-> sep["polygons"]],
      polygonsOutline |-> [data |-> sep["polygons"]]]

\* The state.layerProps that updateState leaves for props.data = d.
layerPropsOf(d) ==
  IF Truthy(binaryOf(d))
  THEN subLayerPropsFromBinary(d)
  ELSE subLayerPropsFromFeatures(getGeojsonFeatures(d))

\* The props renderLayers reads.  shouldRender holds the sub-layers for which
\* shouldRenderSubLayer answers true (one answer for all point sub-layers).
QueryProps ==
  [id : {LayerId},
   extruded : BOOLEAN,
   stroked : BOOLEAN,
   pointType : PointTypes,
   highlightedObjectIndex : {Undefined, Num(1)},
   shouldRender : SUBSET {PolygonFillId, PolygonStrokeId, LineStringsId, <<"points">>}]

\* The state after initializeState and the first updateState call, which had
\* a full data change.
InitQuery ==
  /\ \E d \in QueryData :
       \E st \in {IF Truthy(binaryOf(d))
                  THEN [heap |-> <<>>, features |-> NoBuckets, featuresDiff |-> NoBuckets]
                  ELSE rebuildBuckets(<<>>, getGeojsonFeatures(d))} :
         /\ data = d
         /\ binary = binaryOf(d)
         /\ path = IF Truthy(binaryOf(d)) THEN "binary" ELSE "json"
         /\ arrays = st.heap
         /\ features = st.features
         /\ featuresDiff = st.featuresDiff
         /\ layerProps = layerPropsOf(d)
  /\ oldData = NoData
  /\ dataChanged = FullChange
  /\ oldFeatures = NoBuckets
  /\ passes = 1
  /\ pass = IdlePass
  /\ props \in QueryProps
  /\ info = [pc |-> "none"]
  /\ subLayers = <<>>
  /\ highlighted = {}

False == [kind |-> "false"]

Null == [kind |-> "null"]

List(items) == [kind |-> "list", items |-> items]

\* new SubLayerClass(forwardedProps, this.getSubLayerProps({id, ...}), given);
\* the forwarded accessor props and update triggers are not modelled.
Layer(id, name, given, highlightedObjectIndex) ==
  [kind |-> "layer", id |-> subLayerId(id, name), props |-> given,
   highlightedObjectIndex |-> highlightedObjectIndex]

\* this.shouldRenderSubLayer(name, data) && this.getSubLayerClass(name, type)
shouldRenderSubLayer(p, name) ==
  \/ name \in p.shouldRender
  \/ name[1] = "points" /\ <<"points">> \in p.shouldRender

_renderPolygonLayer(p, lp) ==
  IF shouldRenderSubLayer(p, PolygonFillId)
  THEN Layer(p.id, PolygonFillId, lp.polygons, Undefined)
  ELSE Null

\* Variant of _renderLineLayers: props.extruded is not tested.
_renderLineLayersExtruded(p, lp) ==
  LET PolygonStrokeLayer ==
        p.stroked /\ shouldRenderSubLayer(p, PolygonStrokeId)
      LineStringsLayer == shouldRenderSubLayer(p, LineStringsId)
  IN IF PolygonStrokeLayer \/ LineStringsLayer
     THEN List(<<IF PolygonStrokeLayer
                 THEN Layer(p.id, PolygonStrokeId, lp.polygonsOutline, Undefined)
                 ELSE False,
                 IF LineStringsLayer
                 THEN Layer(p.id, LineStringsId, lp.lines, Undefined)
                 ELSE False>>)
     ELSE Null

_renderLineLayers(p, lp) ==
  LET PolygonStrokeLayer ==
        ~p.extruded /\ p.stroked /\ shouldRenderSubLayer(p, PolygonStrokeId)
      LineStringsLayer == shouldRenderSubLayer(p, LineStringsId)
  IN IF PolygonStrokeLayer \/ LineStringsLayer
     THEN List(<<IF PolygonStrokeLayer
                 THEN Layer(p.id, PolygonStrokeId, lp.polygonsOutline, Undefined)
                 ELSE False,
                 IF LineStringsLayer
                 THEN Layer(p.id, LineStringsId, lp.lines, Undefined)
                 ELSE False>>)
     ELSE Null

\* rows.findIndex(d => d.__source.index === sourceIndex)
findIndex(rows, sourceIndex) ==
  IF \E i \in 1..Len(rows) : rows[i].sourceIndex = sourceIndex
  THEN (CHOOSE i \in 1..Len(rows) :
          /\ rows[i].sourceIndex = sourceIndex
          /\ \A j \in 1..(i - 1) : rows[j].sourceIndex # sourceIndex) - 1
  ELSE -1

\* const {instancePickingColors, ...rest} = pointsLayerProps.data.attributes;
\* {...pointsLayerProps, data: {...pointsLayerProps.data, attributes: rest}}
withoutPickingColors(pointsLayerProps) ==
  [pointsLayerProps EXCEPT !.data.attributes = @ \ {"instancePickingColors"}]

\* Variant of renderPointType: instancePickingColors is deleted from the
\* attributes of state.layerProps.points.
renderPointTypeInPlace(st, type, p, b, highlightedObjectIndex) ==
  IF type \in POINT_LAYER /\ shouldRenderSubLayer(p, PointsId(type))
  THEN LET pointsLayerProps ==
             IF type = "text" /\ Truthy(b)
             THEN withoutPickingColors(st.layerProps.points)
             ELSE st.layerProps.points
       IN [layerProps |-> [st.layerProps EXCEPT !.points = pointsLayerProps],
           pointLayers |-> Append(st.pointLayers,
                                  Layer(p.id, PointsId(type), pointsLayerProps,
                                        highlightedObjectIndex))]
  ELSE st

\* One iteration of the loop of _renderPointLayers over the point types;
\* st holds state.layerProps and the list pointLayers.
renderPointType(st, type, p, b, highlightedObjectIndex) ==
  IF type \in POINT_LAYER /\ shouldRenderSubLayer(p, PointsId(type))
  THEN LET pointsLayerProps ==
             IF type = "text" /\ Truthy(b)
             THEN withoutPickingColors(st.layerProps.points)
             ELSE st.layerProps.points
       IN [layerProps |-> st.layerProps,
           pointLayers |-> Append(st.pointLayers,
                                  Layer(p.id, PointsId(type), pointsLayerProps,
                                        highlightedObjectIndex))]
  ELSE st

RECURSIVE renderPointTypes(_, _, _, _, _)
renderPointTypes(st, types, p, b, highlightedObjectIndex) ==
  IF types = <<>> THEN st
  ELSE renderPointTypes(renderPointType(st, Head(types), p, b, highlightedObjectIndex),
                        Tail(types), p, b, highlightedObjectIndex)

_renderPointLayers(p, lp, b) ==
  LET highlightedObjectIndex ==
        IF ~Truthy(b) /\ IsFinite(p.highlightedObjectIndex)
        THEN Num(findIndex(lp.points.data, ValueOf(p.highlightedObjectIndex)))
        ELSE p.highlightedObjectIndex
  IN renderPointTypes([layerProps |-> lp, pointLayers |-> <<>>],
                      distinct(p.pointType), p, b, highlightedObjectIndex)

renderLayers ==
  /\ subLayers = <<>>
  /\ LET polygonFillLayer == _renderPolygonLayer(props, layerProps)
         lineLayers == _renderLineLayers(props, layerProps)
         points == _renderPointLayers(props, layerProps, binary)
     IN /\ subLayers' = <<IF ~props.extruded THEN polygonFillLayer ELSE False,
                          lineLayers,
                          List(points.pointLayers),
                          IF props.extruded THEN polygonFillLayer ELSE False>>
        /\ layerProps' = points.layerProps
  /\ UNCHANGED <<data, oldData, dataChanged, binary, features, featuresDiff,
                 arrays, oldFeatures, path, passes, pass, props, info, highlighted>>

\* The layers of a list of layers, lists of layers and falsy values, in order.
RECURSIVE flatten(_)
flatten(items) ==
  IF items = <<>> THEN <<>>
  ELSE LET item == Head(items)
       IN (CASE item.kind = "layer" -> <<item>>
             [] item.kind = "list" -> flatten(item.items)
             [] OTHER -> <<>>) \o flatten(Tail(items))

\* this.getSubLayers(): the layers renderLayers returned.
getSubLayers == flatten(subLayers)

\* The picking infos super.getPickingInfo returns: an index (-1 when nothing
\* is picked) and the sub-layer the pick came from.
PickingInfos ==
  [index : (-1)..MaxIds,
   sourceLayer : {subLayerId(LayerId, name) :
                    name \in {PolygonFillId, PolygonStrokeId, LineStringsId}
                               \cup {PointsId(type) : type \in POINT_LAYER}}]

\* Variant of typedArrayRead: an index past the end reads the last element.
typedArrayReadClamped(value, index) ==
  IF value = <<>> THEN Undefined
  ELSE IF index >= Len(value) THEN Num(value[Len(value)])
       ELSE Num(value[index + 1])

\* value[index] for a typed array and an index >= 0: undefined outside the
\* array.
typedArrayRead(value, index) ==
  IF index < Len(value) THEN Num(value[index + 1]) ELSE Undefined

\* FEATURE_TYPES.find(ft => sourceLayer.id.startsWith(`${this.id}-${ft}-`))
featureTypeOf(id, sourceLayerId) ==
  LET found == SelectSeq(FEATURE_TYPES,
                 LAMBDA ft : startsWith(sourceLayerId, id \o <<"-", ft, "-">>))
  IN IF found = <<>> THEN "undefined" ELSE Head(found)

\* Variant of getPickingInfo: the index is looked up for every point
\* sub-layer.
getPickingInfoAnyPointLayer(base) ==
  /\ subLayers # <<>>
  /\ info.pc = "none"
  /\ \E i \in 1..Len(getSubLayers) : getSubLayers[i].id = base.sourceLayer
  /\ info' = [pc |-> "picked",
              base |-> base,
              sourceLayer |-> base.sourceLayer,
              featureType |-> featureTypeOf(props.id, base.sourceLayer),
              index |-> IF /\ base.index >= 0
                           /\ startsWith(base.sourceLayer, props.id \o <<"-", "points", "-">>)
                           /\ Truthy(binary)
                        THEN typedArrayRead(data.globalFeatureIds, base.index)
                        ELSE Num(base.index)]
  /\ UNCHANGED <<updateVars, pass, props, subLayers, highlighted>>

\* getPickingInfo, base being the info super.getPickingInfo(params) returns.
getPickingInfo(base) ==
  /\ subLayers # <<>>
  /\ info.pc = "none"
  /\ \E i \in 1..Len(getSubLayers) : getSubLayers[i].id = base.sourceLayer
  /\ info' = [pc |-> "picked",
              base |-> base,
              sourceLayer |-> base.sourceLayer,
              featureType |-> featureTypeOf(props.id, base.sourceLayer),
              index |-> IF /\ base.index >= 0
                           /\ startsWith(base.sourceLayer, props.id \o <<"-", "points", "-", "text">>)
                           /\ Truthy(binary)
                        THEN typedArrayRead(data.globalFeatureIds, base.index)
                        ELSE Num(base.index)]
  /\ UNCHANGED <<updateVars, pass, props, subLayers, highlighted>>

\* Variant of _updateAutoHighlight: only a pick on a point sub-layer is
\* forwarded, to the point sub-layers.
_updateAutoHighlightPointsOnly ==
  /\ info.pc = "picked"
  /\ LET pointLayerIdPrefix == props.id \o <<"-", "points", "-">>
         sourceIsPoints == info.featureType = "points"
     IN highlighted' = {getSubLayers[i].id : i \in
                          {j \in 1..Len(getSubLayers) :
                             startsWith(getSubLayers[j].id, pointLayerIdPrefix)
                               /\ sourceIsPoints}}
  /\ info' = [info EXCEPT !.pc = "highlighted"]
  /\ UNCHANGED <<updateVars, pass, props, subLayers>>

\* _updateAutoHighlight(info), info being the picking info getPickingInfo
\* returned; highlighted holds the sub-layers whose updateAutoHighlight is
\* called.
_updateAutoHighlight ==
  /\ info.pc = "picked"
  /\ LET pointLayerIdPrefix == props.id \o <<"-", "points", "-">>
         sourceIsPoints == info.featureType = "points"
     IN highlighted' = {getSubLayers[i].id : i \in
                          {j \in 1..Len(getSubLayers) :
                             startsWith(getSubLayers[j].id, pointLayerIdPrefix)
                               = sourceIsPoints}}
  /\ info' = [info EXCEPT !.pc = "highlighted"]
  /\ UNCHANGED <<updateVars, pass, props, subLayers>>

NextQuery ==
  \/ renderLayers
  \/ \E base \in PickingInfos : getPickingInfo(base)
  \/ _updateAutoHighlight

SpecQuery == InitQuery /\ [][NextQuery]_vars

----------------------------------------------------------------------------
(* Observations used by the properties *)

\* The rows of bucket k held in state.features.
Bucket(k) == arrays[features[k]]

\* The rows of bucket k that state.features held when the last pass started.
OldBucket(k) == arrays[oldFeatures[k]]

\* The last updateState call ran _updateStateJSON with a list of change ranges.
IsPartialPass == path = "json" /\ dataChanged.kind = "ranges"

\* The last updateState call ran _updateStateJSON with a full data change.
IsFullPass == path = "json" /\ dataChanged.kind = "full"

\* Full rebuild of bucket k of a collection.
FullRebuild(coll, k) == separateGeojsonFeatures(coll, allRows(coll))[k]

\* state.features held, when the last pass started, the full rebuild of coll.
OldIsRebuildOf(coll) ==
  /\ DOMAIN oldFeatures = BucketKeySet
  /\ \A k \in BucketKeySet : OldBucket(k) = FullRebuild(coll, k)

\* new is old with the features at [a, b) replaced by m features.
IsReplacement(old, new, a, b, m) ==
  /\ 0 <= a /\ a < b /\ b <= Len(old)
  /\ m >= 0
  /\ Len(new) = Len(old) - (b - a) + m
  /\ SubSeq(new, 1, a) = SubSeq(old, 1, a)
  /\ SubSeq(new, a + m + 1, Len(new)) = SubSeq(old, b + 1, Len(old))

\* The last pass was a partial pass with the single change range [a, b) over
\* buckets that were the full rebuild of oldData, and data is oldData with
\* the features at [a, b) replaced by m features.
SingleRangeReplacement(m) ==
  /\ IsPartialPass
  /\ Len(dataChanged.ranges) = 1
  /\ OldIsRebuildOf(getGeojsonFeatures(oldData))
  /\ IsReplacement(getGeojsonFeatures(oldData), getGeojsonFeatures(data),
                   dataChanged.ranges[1].startRow, dataChanged.ranges[1].endRow, m)

BucketsAreRebuildOfData ==
  /\ DOMAIN features = BucketKeySet
  /\ \A k \in BucketKeySet : Bucket(k) = FullRebuild(getGeojsonFeatures(data), k)

----------------------------------------------------------------------------
(* C1 - splice correctness *)

\* C1 (as stated): whenever the features at [a, b) of a collection are
\* replaced by M features, for any M, the buckets after the partial pass with
\* change range [a, b) equal the full rebuild of the new collection.
C1_SpliceAnyCount ==
  \A m \in 0..MaxFeatures : SingleRangeReplacement(m) => BucketsAreRebuildOfData

\* C1 (amended): whenever the features at [a, b) of a collection are replaced
\* by the same number b - a of features (each of which may yield a different
\* number of records, so a bucket may still grow or shrink), the buckets after
\* the partial pass with change range [a, b) over the full rebuild of the old
\* collection equal the full rebuild of the new collection.
C1_SpliceSameCount ==
  SingleRangeReplacement(dataChanged.ranges[1].endRow - dataChanged.ranges[1].startRow)
    => BucketsAreRebuildOfData

\* A same-count replacement that grew or shrank the point bucket.
C1_Witness ==
  /\ IsPartialPass
  /\ Len(dataChanged.ranges) = 1
  /\ SingleRangeReplacement(dataChanged.ranges[1].endRow - dataChanged.ranges[1].startRow)
  /\ Len(Bucket("points")) # Len(OldBucket("points"))
  /\ Len(getGeojsonFeatures(data)) = MaxFeatures

----------------------------------------------------------------------------
(* C2 - ordering invariant *)

RowBefore(r1, r2) ==
  \/ r1.sourceIndex < r2.sourceIndex
  \/ r1.sourceIndex = r2.sourceIndex /\ r1.subIndex < r2.subIndex

Sorted(rows) == \A i \in 1..Len(rows), j \in 1..Len(rows) : i < j => RowBefore(rows[i], rows[j])

\* C2: in every reachable state every bucket of state.features is sorted
\* ascending by (sourceIndex, subIndex).
C2_BucketsSorted == \A k \in DOMAIN features : Sorted(Bucket(k))

\* A partial pass over non-empty buckets that changed the point bucket and
\* left it with records of several features and several sub-indices.
C2_Witness ==
  /\ IsPartialPass
  /\ DOMAIN oldFeatures = BucketKeySet
  /\ Len(OldBucket("points")) >= 1
  /\ Bucket("points") # OldBucket("points")
  /\ Len(Bucket("points")) >= 3

----------------------------------------------------------------------------
(* C3 - change-report soundness *)

\* The positions of `rows` covered by a list of report entries.
Covered(report, rows) ==
  {pos \in 0..(Len(rows) - 1) :
     \E i \in 1..Len(report) : report[i].startRow <= pos /\ pos < report[i].endRow}

\* The positions of the bucket `after` whose record differs from the record
\* the bucket `before` held at that position (or that `before` did not have).
Differing(before, after) ==
  {pos \in 0..(Len(after) - 1) :
     pos >= Len(before) \/ before[pos + 1] # after[pos + 1]}

\* C3 (as stated): after a partial pass the positions covered by a bucket's
\* change report are exactly the positions whose record differs between the
\* bucket before and after the pass.
C3_ReportIsExactlyTheDifference ==
  IsPartialPass =>
    \A k \in DOMAIN features :
      Covered(featuresDiff[k], Bucket(k)) = Differing(OldBucket(k), Bucket(k))

----------------------------------------------------------------------------
(* C4 - shape of a change-report entry *)

\* Bucket k after the change ranges r_1..r_n have been spliced into rows.
RECURSIVE SplicedBy(_, _, _, _, _)
SplicedBy(rows, feats, ranges, n, k) ==
  IF n = 0 THEN rows
  ELSE LET before == SplicedBy(rows, feats, ranges, n - 1, k)
           r == ranges[n]
       IN SelectSeq(before, LAMBDA row : row.sourceIndex < r.startRow)
            \o separateGeojsonFeatures(feats, r)[k]
            \o SelectSeq(before, LAMBDA row : row.sourceIndex >= r.endRow)

\* C4: after a partial pass with change ranges r_1..r_n, the i-th entry of
\* every bucket's report starts at the position, in the bucket as updated by
\* r_1..r_(i-1), of the first record whose sourceIndex is >= r_i.startRow
\* (the bucket length if none), and ends at that position plus the number of
\* replacement records of r_i in the bucket.
C4_EntryShape ==
  IsPartialPass =>
    \A k \in DOMAIN features :
      \A i \in 1..Len(dataChanged.ranges) :
        LET r == dataChanged.ranges[i]
            feats == getGeojsonFeatures(data)
            before == SplicedBy(OldBucket(k), feats, dataChanged.ranges, i - 1, k)
            start == firstAtLeast(before, r.startRow)
        IN /\ i <= Len(featuresDiff[k])
           /\ featuresDiff[k][i].startRow = start
           /\ featuresDiff[k][i].endRow
                = start + Len(separateGeojsonFeatures(feats, r)[k])

\* A partial pass with two ranges whose first splice changed the length of
\* the point bucket, so that the second entry's start is not the position the
\* range had in the bucket before the pass.
C4_Witness ==
  /\ IsPartialPass
  /\ Len(dataChanged.ranges) = 2
  /\ DOMAIN features = BucketKeySet
  /\ Len(featuresDiff["points"]) = 2
  /\ featuresDiff["points"][2].startRow
       # firstAtLeast(OldBucket("points"), dataChanged.ranges[2].startRow)
  /\ featuresDiff["points"][2].startRow < featuresDiff["points"][2].endRow

----------------------------------------------------------------------------
(* C5 - one report entry per range per bucket *)

\* C5: after a partial pass with n change ranges every bucket of
\* state.features has a report of exactly n entries, in ascending order of
\* position; a range that contributes no record to a bucket has a zero-length
\* entry in that bucket's report.
C5_OneEntryPerRange ==
  IsPartialPass =>
    /\ DOMAIN featuresDiff = DOMAIN features
    /\ \A k \in DOMAIN features :
         /\ Len(featuresDiff[k]) = Len(dataChanged.ranges)
         /\ \A i \in 1..Len(featuresDiff[k]) :
              /\ featuresDiff[k][i].startRow <= featuresDiff[k][i].endRow
              /\ i > 1 => featuresDiff[k][i - 1].endRow <= featuresDiff[k][i].startRow
              /\ separateGeojsonFeatures(getGeojsonFeatures(data), dataChanged.ranges[i])[k] = <<>>
                   => featuresDiff[k][i].startRow = featuresDiff[k][i].endRow

\* A partial pass with two ranges over three buckets, where one range gives
\* the point bucket records and the polygon bucket none.
C5_Witness ==
  /\ IsPartialPass
  /\ Len(dataChanged.ranges) = 2
  /\ DOMAIN features = BucketKeySet
  /\ \E i \in 1..2 :
       /\ featuresDiff["points"][i].startRow < featuresDiff["points"][i].endRow
       /\ featuresDiff["polygons"][i].startRow = featuresDiff["polygons"][i].endRow
       /\ featuresDiff["polygons"][i].startRow > 0

----------------------------------------------------------------------------
(* C6 - end-to-end example *)

\* The example: buckets rebuilt from [MultiPoint, Polygon], then a partial
\* pass with the single change range [0, 1) over [Point, Polygon].
C6_Example ==
  /\ IsPartialPass
  /\ dataChanged.ranges = <<[startRow |-> 0, endRow |-> 1]>>
  /\ getGeojsonFeatures(data) = <<Point, Polygon>>
  /\ OldIsRebuildOf(<<MultiPoint, Polygon>>)

C6_ExampleBuckets ==
  /\ Len(Bucket("points")) = 1
  /\ Bucket("points")[1].sourceIndex = 0
  /\ Bucket("points")[1].object = Point
  /\ featuresDiff["points"] = <<[startRow |-> 0, endRow |-> 1]>>
  /\ Bucket("polygons") = OldBucket("polygons")
  /\ Len(Bucket("polygons")) = 1
  /\ Bucket("lines") = <<>>

\* C6 (as stated): in the example the point bucket shrinks from 2 records to
\* 1 with report [{0, 1}], the polygon bucket is unchanged, and the polygon
\* bucket's report has no entries.
C6_PolygonReportEmpty ==
  C6_Example => C6_ExampleBuckets /\ featuresDiff["polygons"] = <<>>

\* C6 (amended): as stated, except that the polygon bucket's report has one
\* zero-length entry [{0, 0}] (and so has the line bucket's).
C6_PolygonReportZeroLength ==
  C6_Example =>
    /\ C6_ExampleBuckets
    /\ Len(OldBucket("points")) = 2
    /\ featuresDiff["polygons"] = <<[startRow |-> 0, endRow |-> 0]>>
    /\ featuresDiff["lines"] = <<[startRow |-> 0, endRow |-> 0]>>

\* The example has run.
C6_Witness == C6_Example /\ Len(Bucket("points")) < Len(OldBucket("points"))

----------------------------------------------------------------------------
(* C7 - path selection *)

\* props.data is present and has the keys points, lines and polygons.
IsColumnar(d) == d.present /\ d.points /\ d.lines /\ d.polygons

\* C7: on every updateState call with dataChanged truthy, the columnar path
\* is taken iff data is present and has all three keys, state.binary is
\* truthy exactly then, and then the object path does not run: state.features,
\* state.featuresDiff and the bucket arrays are left as they were.
C7_PathSelection ==
  [][dataChanged'.kind # "false" =>
       /\ path' \in {"binary", "json"}
       /\ (path' = "binary") <=> IsColumnar(data')
       /\ Truthy(binary') <=> IsColumnar(data')
       /\ IsColumnar(data') => UNCHANGED <<features, featuresDiff, arrays>>]_vars

\* A columnar pass over data that also carries features, signalled with a
\* list of change ranges, after an object pass had built non-empty buckets.
C7_Witness ==
  /\ path = "binary"
  /\ dataChanged.kind = "ranges"
  /\ getGeojsonFeatures(data) # <<>>
  /\ DOMAIN features = BucketKeySet
  /\ Bucket("points") # <<>>

----------------------------------------------------------------------------
(* C8 - three buckets always coexist *)

\* C8 (as stated): after every object-path pass state.features has the
\* point, line and polygon buckets.
C8_ThreeBuckets == path = "json" => DOMAIN features = BucketKeySet

----------------------------------------------------------------------------
(* C9 - idempotence of full rebuild *)

----------------------------------------------------------------------------
(* C10 - in-place patching *)

\* C10 (as stated): after a partial pass every bucket of state.features is
\* the array that state.features held before the pass; after a full pass
\* every bucket is a newly built array.
C10_SameBackingSequence ==
  /\ IsPartialPass => \A k \in DOMAIN oldFeatures : features[k] = oldFeatures[k]
  /\ IsFullPass => \A k \in DOMAIN features : \A j \in DOMAIN oldFeatures : features[k] # oldFeatures[j]

\* C10 (amended): on a partial pass every bucket of state.features is a new
\* array, a copy of the bucket held before the pass with the change ranges
\* spliced into the copy, and no array that existed before the pass is
\* modified; on a full pass every bucket is a newly built array.
C10_SplicedCopy ==
  [][(path' = "json" /\ dataChanged'.kind \in {"ranges", "full"}) =>
       /\ \A k \in DOMAIN features' : features'[k] \notin DOMAIN arrays
       /\ \A id \in DOMAIN arrays : arrays'[id] = arrays[id]
       /\ dataChanged'.kind = "ranges" =>
            /\ DOMAIN features' = DOMAIN features
            /\ \A k \in DOMAIN features :
                 arrays'[features'[k]]
                   = SplicedBy(arrays[features[k]], getGeojsonFeatures(data'),
                               dataChanged'.ranges, Len(dataChanged'.ranges), k)]_vars

\* A partial pass that spliced a bucket to rows other than those it held.
C10_Witness ==
  /\ IsPartialPass
  /\ DOMAIN oldFeatures = BucketKeySet
  /\ OldBucket("points") # <<>>
  /\ Bucket("points") # OldBucket("points")
  /\ features["points"] # oldFeatures["points"]

----------------------------------------------------------------------------
(* C13 - atomicity of an object-path update pass *)

\* What this.state shows of the buckets: the bucket arrays with their rows,
\* the reports and the layer props.
Observed ==
  [features |-> features,
   rows |-> [k \in DOMAIN features |-> arrays[features[k]]],
   featuresDiff |-> featuresDiff,
   layerProps |-> layerProps]

\* C13: during an object-path pass nothing this.state shows of features,
\* featuresDiff and layerProps changes before the final setState; the final
\* setState of a range-based pass writes the three together, after every
\* range has been spliced into the copies: every bucket then has all ranges
\* applied and a report with one entry per range.
C13_AtomicPass ==
  [][/\ (path' = "json" /\ pass.pc # "commit") => Observed' = Observed
     /\ (pass.pc = "commit" /\ pass.cf.kind = "ranges") =>
          /\ pass.todo = <<>>
          /\ pass'.pc = "idle"
          /\ features' = pass.newFeatures
          /\ featuresDiff' = pass.featuresDiff
          /\ layerProps' = createLayerPropsFromFeatures(features', featuresDiff')
          /\ \A k \in DOMAIN features' :
               /\ k \in DOMAIN features
               /\ features'[k] # features[k]
               /\ Len(featuresDiff'[k]) = Len(pass.cf.ranges)
               /\ arrays'[features'[k]]
                    = SplicedBy(arrays[features[k]], getGeojsonFeatures(pass.d),
                                pass.cf.ranges, Len(pass.cf.ranges), k)]_vars

\* In the middle of a pass with two ranges: the first has been spliced into
\* the copy of the point bucket, the second has not, and the state still
\* holds the bucket and the report of before the pass.
C13_Witness ==
  /\ pass.pc = "ranges"
  /\ Len(pass.cf.ranges) = 2
  /\ Len(pass.todo) = 1
  /\ DOMAIN features = BucketKeySet
  /\ arrays[pass.newFeatures["points"]] # arrays[features["points"]]
  /\ Len(pass.featuresDiff["points"]) = 1
  /\ featuresDiff = NoBuckets

----------------------------------------------------------------------------
(* C14 - an updateState call without a data change *)

\* C14: an updateState call whose changeFlags.dataChanged is falsy leaves
\* state.binary, state.features, state.featuresDiff and state.layerProps,
\* and the rows of every bucket, as they were.
C14_NoChangeFrame ==
  [][dataChanged'.kind = "false" =>
       /\ UNCHANGED <<binary, features, featuresDiff, layerProps, arrays>>
       /\ path' = "none"]_vars

\* An updateState call without a data change, made with props.data of the
\* other shape, after a partial pass: the report of the partial pass is
\* still in state.
C14_Witness ==
  /\ dataChanged.kind = "false"
  /\ path = "none"
  /\ IsColumnar(data)
  /\ binary = "false"
  /\ DOMAIN featuresDiff = BucketKeySet
  /\ featuresDiff["points"] # <<>>
  /\ layerProps = createLayerPropsFromFeatures(features, featuresDiff)

----------------------------------------------------------------------------
(* C15 - what a columnar pass leaves alone *)

\* C15: a columnar pass writes state.binary and state.layerProps and leaves
\* state.features, state.featuresDiff and the bucket arrays as they were; a
\* range-based object pass that follows a columnar pass splices its ranges
\* into copies of the buckets the state held before the columnar pass, so
\* when those are non-empty it does not start from empty buckets.
C15_ColumnarFrame ==
  [][/\ path' = "binary" =>
          /\ UNCHANGED <<features, featuresDiff, arrays>>
          /\ binary' = "true"
          /\ layerProps' = createLayerPropsFromBinary(data')
     /\ (path = "binary" /\ path' = "json" /\ dataChanged'.kind = "ranges") =>
          /\ DOMAIN features' = DOMAIN features
          /\ \A k \in DOMAIN features :
               arrays'[features'[k]]
                 = SplicedBy(arrays[features[k]], getGeojsonFeatures(data'),
                             dataChanged'.ranges, Len(dataChanged'.ranges), k)]_vars

\* The third pass, range-based, after props.data had been columnar: it
\* spliced the non-empty point bucket built by the first pass, and the
\* result is neither empty nor the rebuild of the new collection.
C15_Witness ==
  /\ IsPartialPass
  /\ passes = 3
  /\ IsColumnar(oldData)
  /\ DOMAIN oldFeatures = BucketKeySet
  /\ OldBucket("points") # <<>>
  /\ Bucket("points") # <<>>
  /\ Bucket("points") # FullRebuild(getGeojsonFeatures(data), "points")
  /\ Bucket("points")
       = SplicedBy(OldBucket("points"), getGeojsonFeatures(data),
                   dataChanged.ranges, Len(dataChanged.ranges), "points")

----------------------------------------------------------------------------
(* Observations on rendering and picking *)

\* The id of the text sub-layer.
TextLayerId == subLayerId(props.id, PointsId("text"))

\* The ids of the point sub-layers.
PointLayerIds == {subLayerId(props.id, PointsId(type)) : type \in POINT_LAYER}

\* The pick came from the text sub-layer while the columnar path is in use.
ColumnarTextPick ==
  /\ info.pc # "none"
  /\ binary = "true"
  /\ IsColumnar(data)
  /\ info.sourceLayer = TextLayerId

\* The ids held by points.globalFeatureIds.
FeatureIds == {data.globalFeatureIds[i] : i \in 1..Len(data.globalFeatureIds)}

\* The ids of the sub-layers, in order.
SubLayerIdList == [i \in 1..Len(getSubLayers) |-> getSubLayers[i].id]

SubLayerIds == {SubLayerIdList[i] : i \in 1..Len(SubLayerIdList)}

\* The positions of the sub-layer `id` in the list renderLayers returned.
PositionsOf(id) == {i \in 1..Len(SubLayerIdList) : SubLayerIdList[i] = id}

----------------------------------------------------------------------------
(* C11 - a picking index outside points.globalFeatureIds *)

\* C11: when a pick on the text sub-layer of the columnar path has an index
\* outside [0, length of points.globalFeatureIds), the returned info.index is
\* the negative index itself if the index is negative, and otherwise is
\* undefined: not a number, and so not the id of any feature.
C11_StaleIndex ==
  (ColumnarTextPick /\ info.base.index \notin 0..(Len(data.globalFeatureIds) - 1)) =>
    /\ info.base.index < 0 => info.index = Num(info.base.index)
    /\ info.base.index >= 0 =>
         /\ ~IsFinite(info.index)
         /\ \A id \in FeatureIds : info.index # Num(id)

\* A pick on the text sub-layer with the index one past the end of a
\* non-empty points.globalFeatureIds.
C11_Witness ==
  /\ ColumnarTextPick
  /\ data.globalFeatureIds # <<>>
  /\ info.base.index = Len(data.globalFeatureIds)
  /\ info.index = Undefined

----------------------------------------------------------------------------
(* C12 - the index of a pick on the columnar text sub-layer *)

\* C12: the returned info.index is points.globalFeatureIds[index] when the
\* base index is >= 0, the source sub-layer id starts with
\* '<layer id>-points-text' and state.binary is set, and in every other case
\* it is the index the base picking resolution returned.
C12_TextLookup ==
  info.pc # "none" =>
    IF /\ info.base.index >= 0
       /\ startsWith(info.sourceLayer, TextLayerId)
       /\ binary = "true"
    THEN info.index = IF info.base.index < Len(data.globalFeatureIds)
                      THEN Num(data.globalFeatureIds[info.base.index + 1])
                      ELSE Undefined
    ELSE info.index = Num(info.base.index)

\* A pick on the columnar text sub-layer whose feature id is not the index of
\* the picked point.
C12_Witness ==
  /\ ColumnarTextPick
  /\ info.base.index = 1
  /\ data.globalFeatureIds = <<0, 0>>
  /\ info.index = Num(0)

----------------------------------------------------------------------------
(* C16 - auto-highlight routing *)

\* C16: _updateAutoHighlight forwards the info to a sub-layer iff (the
\* sub-layer id starts with '<layer id>-points-') equals (info.featureType is
\* 'points'); a pick on a point sub-layer is forwarded to exactly the point
\* sub-layers, any other pick to exactly the other sub-layers.
C16_HighlightRouting ==
  info.pc = "highlighted" =>
    /\ \A id \in SubLayerIds :
         id \in highlighted
           <=> (startsWith(id, props.id \o <<"-", "points", "-">>)
                  = (info.featureType = "points"))
    /\ highlighted = IF info.sourceLayer \in PointLayerIds
                     THEN SubLayerIds \cap PointLayerIds
                     ELSE SubLayerIds \ PointLayerIds

\* A pick on the circle sub-layer, with the text, fill and linestrings
\* sub-layers also rendered: forwarded to the circle and text sub-layers.
C16_Witness ==
  /\ info.pc = "highlighted"
  /\ info.sourceLayer = subLayerId(props.id, PointsId("circle"))
  /\ {subLayerId(props.id, PolygonFillId), subLayerId(props.id, LineStringsId)}
       \subseteq SubLayerIds
  /\ highlighted = {subLayerId(props.id, PointsId("circle")), TextLayerId}

----------------------------------------------------------------------------
(* C17 - picking colors of the text sub-layer *)

\* C17: after renderLayers, state.layerProps is what the update pass left;
\* on the columnar path the text sub-layer holds state.layerProps.points with
\* instancePickingColors, and nothing else, removed from the attributes of
\* its data, and every other point sub-layer holds state.layerProps.points
\* itself, with instancePickingColors; on the object path every point
\* sub-layer holds state.layerProps.points itself.
C17_TextPickingColors ==
  subLayers # <<>> =>
    /\ layerProps = layerPropsOf(data)
    /\ \A i \in 1..Len(getSubLayers) :
         LET layer == getSubLayers[i]
         IN layer.id \in PointLayerIds =>
              IF layer.id = TextLayerId /\ binary = "true"
              THEN /\ layer.props.data.attributes
                        = layerProps.points.data.attributes \ {"instancePickingColors"}
                   /\ layer.props.data.length = layerProps.points.data.length
                   /\ DOMAIN layer.props = DOMAIN layerProps.points
                   /\ DOMAIN layer.props.data = DOMAIN layerProps.points.data
              ELSE /\ layer.props = layerProps.points
                   /\ binary = "true" =>
                        "instancePickingColors" \in layer.props.data.attributes

\* pointType 'text+circle' rendered on the columnar path: the text sub-layer,
\* rendered first, has no instancePickingColors and the circle sub-layer has.
C17_Witness ==
  /\ binary = "true"
  /\ props.pointType = <<"text", "circle">>
  /\ Len(subLayers) = 4
  /\ Len(subLayers[3].items) = 2
  /\ subLayers[3].items[1].id = TextLayerId
  /\ subLayers[3].items[1].props.data.attributes = {"getPosition"}
  /\ subLayers[3].items[2].props.data.attributes = Attributes
  /\ layerProps.points.data.attributes = Attributes

----------------------------------------------------------------------------
(* C18 - order of the sub-layers *)

\* C18: in the list renderLayers returns the polygon fill sub-layer occurs
\* at most once, before every other sub-layer when props.extruded is false
\* and after every other sub-layer when it is true; the polygon stroke
\* sub-layer occurs only when props.extruded is false and props.stroked is
\* true, and then before the linestrings sub-layer.
C18_SubLayerOrder ==
  subLayers # <<>> =>
    LET fill == PositionsOf(subLayerId(props.id, PolygonFillId))
        stroke == PositionsOf(subLayerId(props.id, PolygonStrokeId))
        lines == PositionsOf(subLayerId(props.id, LineStringsId))
    IN /\ Cardinality(fill) <= 1
       /\ fill \subseteq IF props.extruded THEN {Len(SubLayerIdList)} ELSE {1}
       /\ subLayers[IF props.extruded THEN 1 ELSE 4] = False
       /\ stroke # {} => ~props.extruded /\ props.stroked
       /\ \A i \in stroke : \A j \in lines : i < j

\* An extruded, stroked layer whose fill, linestrings and circle sub-layers
\* are rendered: the fill sub-layer is last and there is no stroke sub-layer,
\* though shouldRenderSubLayer allows it.
C18_Witness ==
  /\ subLayers # <<>>
  /\ props.extruded
  /\ props.stroked
  /\ PolygonStrokeId \in props.shouldRender
  /\ SubLayerIdList = <<subLayerId(props.id, LineStringsId),
                        subLayerId(props.id, PointsId("circle")),
                        subLayerId(props.id, PolygonFillId)>>

====
